---- MODULE Spec2Model ----
(***************************************************************************)
(* State-machine model of two widgets of the repository:                   *)
(*   - Slider          (src/unnamed/part_000)                              *)
(*   - LiveDropMenu    (src/src/widgets/LiveDropMenu.js)                   *)
(*                                                                         *)
(* JavaScript numbers are modelled as exact rationals <<n, d>> (d > 0, in  *)
(* lowest terms); Number.prototype.toFixed(0) is modelled as what it does: *)
(* it rounds half away from zero and returns a STRING.  A JavaScript value *)
(* is therefore a record [str, q]: q is the numeric value (what ToNumber   *)
(* yields), str tells whether the value is a string.                       *)
(*                                                                         *)
(* DOM event targets keep a SET of (type, callback) registrations:         *)
(* addEventListener with a registration already present is a no-op, and    *)
(* removeEventListener of an absent registration is a no-op.               *)
(*                                                                         *)
(* Events are modelled at the point where they are dispatched to the       *)
(* listeners of the element the widget registered on (the slider's svg     *)
(* elements and document.body; the menu's canvases and document).  Every   *)
(* pointer event carries a numeric clientY, as a MouseEvent does.          *)
(***************************************************************************)
EXTENDS Integers, Sequences, FiniteSets, TLC

\* ------------------------------------------------------------------------
\* Bounds of the model
\* ------------------------------------------------------------------------
MaxObservers == 2
MaxMoves == 2

\* ------------------------------------------------------------------------
\* Exact rational arithmetic (JavaScript Number, rounding error abstracted)
\* ------------------------------------------------------------------------
Abs(x) == IF x < 0 THEN -x ELSE x

RECURSIVE GCD(_, _)
GCD(a, b) == IF b = 0 THEN a ELSE GCD(b, a % b)

Rat(n, d) ==
  LET g == GCD(Abs(n), Abs(d))
      s == IF d < 0 THEN -1 ELSE 1
  IN  <<(s * n) \div g, (s * d) \div g>>

Int2Rat(n) == <<n, 1>>
RAdd(a, b) == Rat(a[1] * b[2] + b[1] * a[2], a[2] * b[2])
RSub(a, b) == Rat(a[1] * b[2] - b[1] * a[2], a[2] * b[2])
RMul(a, b) == Rat(a[1] * b[1], a[2] * b[2])
RDiv(a, b) == Rat(a[1] * b[2], a[2] * b[1])
RLe(a, b) == a[1] * b[2] <= b[1] * a[2]
RLt(a, b) == a[1] * b[2] < b[1] * a[2]
RAbs(a) == <<Abs(a[1]), a[2]>>
RMin(a, b) == IF RLe(a, b) THEN a ELSE b
RMax(a, b) == IF RLe(a, b) THEN b ELSE a

\* a JavaScript number / a JavaScript string holding a decimal numeral
JsNum(q) == [str |-> FALSE, q |-> q]
JsStr(q) == [str |-> TRUE, q |-> q]
\* ToNumber: what "/", "-", "<" do to an operand
ToNumber(v) == v.q

\* Number.prototype.toFixed(0): the integer nearest to x, the larger in
\* magnitude of the two when x is halfway; the result is a string.
RoundHalfAway(q) ==
  LET m == Abs(q[1])
      r == (2 * m + q[2]) \div (2 * q[2])
  IN  IF q[1] < 0 THEN -r ELSE r

toFixed0(q) == JsStr(Int2Rat(RoundHalfAway(q)))

\* ------------------------------------------------------------------------
\* Slider: options, dims, geometry
\* ------------------------------------------------------------------------
\* this.dims (Slider._initState)
offsetBottom == 5
offsetTop == 5

\* the defaults of Slider._initOptions
DefaultOptions == [minVal |-> Int2Rat(0), maxVal |-> Int2Rat(127)]

\* Slider constructions explored (minVal < maxVal, rationals)
SliderOptions ==
  { DefaultOptions,
    [minVal |-> Int2Rat(2), maxVal |-> Int2Rat(6)],
    [minVal |-> Int2Rat(-3), maxVal |-> Int2Rat(3)],
    [minVal |-> Rat(1, 2), maxVal |-> Rat(3, 2)] }

\* container heights (pixels) and on-screen top of the container
Heights == {14, 18}
Tops == {7}

\* arguments handed to setVal / setInternalVal
SetArgs ==
  { Int2Rat(-200), Rat(-5, 2), Rat(1, 2), Int2Rat(3), Rat(9, 2),
    Int2Rat(200) }

VARIABLES
  o,             \* Slider: this.o  [minVal, maxVal]
  height,        \* Slider: height of the container (Widget._getHeight)
  top,           \* Slider: on-screen top of the container
  state,         \* Slider: this.state  [val]
  handleY0,      \* Slider: y0 of the points attribute of svgEls.handle
  bodyListeners, \* Slider: registrations on document.body
  sObservers,    \* Slider: Widget observer registry
  sLast,         \* Slider: the operation or event handled last
  sEffects,      \* Slider: what the last operation did, in order
  sMoves,        \* Slider: pointer-moves handled since the last pointer-down
  sDowns         \* Slider: pointer-downs of the current drag, or of the
                 \* last one when Idle

VARIABLES
  _observers,       \* LiveDropMenu: this._observers
  _menuItems,       \* LiveDropMenu: this._menuItems
  _selectedItemNum, \* LiveDropMenu: this._selectedItemNum
  _hoverItemNum,    \* LiveDropMenu: this._hoverItemNum
  ddVisibility,     \* LiveDropMenu: this._ddCanvas.style.visibility
  ddStyle,          \* LiveDropMenu: this._ddCanvas.style  [left, top]
  ddHeight,         \* LiveDropMenu: this._ddCanvas.height
  canvasRect,       \* LiveDropMenu: this._canvas.getBoundingClientRect()
  ddListeners,      \* LiveDropMenu: registrations on this._ddCanvas
  docListeners,     \* LiveDropMenu: registrations on document
  mLast,            \* LiveDropMenu: the operation or event handled last
  mCalls,           \* LiveDropMenu: observer calls made by it, in order
  mThrown,          \* LiveDropMenu: the exception it ended with, or "none"
  mGesture,         \* LiveDropMenu: the pointer events since the menu opened
  mHoverRow,        \* LiveDropMenu: the overlay row the pointer moved over
                    \* last since the menu opened, -1 if none
  mFound            \* LiveDropMenu: the overlay visibility the last pointer
                    \* event found, "" after any other operation

menuVars == <<_observers, _menuItems, _selectedItemNum, _hoverItemNum,
              ddVisibility, ddStyle, ddHeight, canvasRect, ddListeners,
              docListeners, mLast, mCalls, mThrown, mGesture,
              mHoverRow, mFound>>

sliderVars == <<o, height, top, state, handleY0, bodyListeners, sObservers,
                sLast, sEffects, sMoves, sDowns>>

\* ------------------------------------------------------------------------
\* Widget base class and Constraint (util/constraint): not among the source
\* files; modelled from the specification (sections 4.1 and 4.2)
\* ------------------------------------------------------------------------
_getHeight == height
_getRelativeY(y) == RSub(y, Int2Rat(top))

\* Constraint.apply: clamp into [min, max], then the transform
Clamp(c, raw) == RMin(RMax(raw, c.min), c.max)

\* ------------------------------------------------------------------------
\* Slider helpers
\* ------------------------------------------------------------------------
\* variant: the transform scaling by o.mouseSensitivity (1.2) before rounding
SliderTransformScaled(num) == toFixed0(RMul(num, Rat(6, 5)))

\* transform: (num) => num.toFixed(0)
SliderTransform(num) == toFixed0(num)

\* this.stateConstraints.val
stateConstraints == [min |-> o.minVal, max |-> o.maxVal]

ConstraintApply(c, raw) == SliderTransform(Clamp(c, raw))

_calcSliderBodyHeight == _getHeight - offsetTop - offsetBottom

\* y0 of _calcSliderHandlePoints for this.state.val = v (a JavaScript value)
_calcSliderHandleY0(v) ==
  LET sliderBodyHeight == Int2Rat(_calcSliderBodyHeight)
  IN  RAdd(RSub(sliderBodyHeight,
                RMul(RDiv(ToNumber(v), RSub(o.maxVal, o.minVal)), sliderBodyHeight)),
           Int2Rat(offsetBottom))

\* variant: _calcTouchVal measuring bodyY from the top end of the body
_calcTouchValFromTop(y) ==
  LET valRange == RSub(o.maxVal, o.minVal)
      bodyY == RSub(_getRelativeY(y), Int2Rat(offsetTop))
      touchVal == RAdd(RMul(RDiv(bodyY, Int2Rat(_calcSliderBodyHeight)),
                            valRange),
                       o.minVal)
  IN  touchVal

_calcTouchVal(y) ==
  LET valRange == RSub(o.maxVal, o.minVal)
      bodyY == RSub(RSub(Int2Rat(_getHeight), _getRelativeY(y)),
                    Int2Rat(offsetBottom))
      touchVal == RAdd(RMul(RDiv(bodyY, Int2Rat(_calcSliderBodyHeight)),
                            valRange),
                       o.minVal)
  IN  touchVal

\* ------------------------------------------------------------------------
\* Slider: what one call does, logged in order in sEffects
\* ------------------------------------------------------------------------
NoArg == JsNum(Int2Rat(0))
Effect(e, who, arg) == [e |-> e, who |-> who, arg |-> arg]

\* Widget.setState({val: raw}): validate, merge, _update, notify observers
SetStateEffects(validated) ==
  <<Effect("state", "val", validated), Effect("_update", "", NoArg)>> \o
  [i \in 1..Len(sObservers) |-> Effect("notify", sObservers[i], validated)]

\* Widget.setInternalState({val: raw}): validate, merge, _update
SetInternalStateEffects(validated) ==
  <<Effect("state", "val", validated), Effect("_update", "", NoArg)>>

\* the four registrations of handlers.touchHandle, in the order it makes them
TouchHandleAdds ==
  << <<"mousemove", "moveHandle">>, <<"touchmove", "moveHandle">>,
     <<"mouseup", "releaseHandle">>, <<"touchend", "releaseHandle">> >>

\* the four removals of handlers.releaseHandle, in the order it makes them
ReleaseHandleRemoves ==
  << <<"touchmove", "moveHandle">>, <<"mousemove", "moveHandle">>,
     <<"mouseup", "releaseHandle">>, <<"touchend", "releaseHandle">> >>

Range(f) == {f[i] : i \in DOMAIN f}

ListenerEffects(e, regs) ==
  [i \in 1..Len(regs) |-> Effect(e, regs[i][1], NoArg)]

\* handlers.touchHandle
TouchHandleEffects == ListenerEffects("addEventListener", TouchHandleAdds)

Op(op, arg) == [op |-> op, arg |-> arg]

\* Widget.setState / Widget.setInternalState on {val: raw}: the new state.val
\* and the effects, in order
setState(raw) ==
  LET validated == CHOOSE v \in {ConstraintApply(stateConstraints, raw)} : TRUE
  IN  [val |-> validated, effects |-> SetStateEffects(validated)]

setInternalState(raw) ==
  LET validated == CHOOSE v \in {ConstraintApply(stateConstraints, raw)} : TRUE
  IN  [val |-> validated, effects |-> SetInternalStateEffects(validated)]

\* ------------------------------------------------------------------------
\* Slider: public API and handlers (this.handlers)
\* ------------------------------------------------------------------------
getVal == state.val

\* variant: setInternalVal going through setState
setInternalValNotifying(newVal) == setState(newVal)

setInternalVal(newVal) == setInternalState(newVal)

setVal(newVal) == setState(newVal)

\* variant: touchHandle registering fresh bound copies of the handlers,
\* which releaseHandle's removeEventListener calls do not match
touchHandleBound ==
  [listeners |->
     bodyListeners \cup {<<"mousemove", "moveHandle.bind()">>,
                         <<"touchmove", "moveHandle.bind()">>,
                         <<"mouseup", "releaseHandle.bind()">>,
                         <<"touchend", "releaseHandle.bind()">>},
   effects |-> TouchHandleEffects]

touchHandle ==
  [listeners |-> bodyListeners \cup Range(TouchHandleAdds),
   effects |-> TouchHandleEffects]

\* variant: touchBody registering the document listeners before it commits
touchBodyAttachFirst(clientY) ==
  LET newVal == _calcTouchVal(clientY)
      set == CHOOSE r \in {setState(newVal)} : TRUE
  IN  [val |-> set.val,
       listeners |-> touchHandle.listeners,
       effects |-> touchHandle.effects \o set.effects]

touchBody(clientY) ==
  LET newVal == _calcTouchVal(clientY)
      set == CHOOSE r \in {setState(newVal)} : TRUE
  IN  [val |-> set.val,
       listeners |-> touchHandle.listeners,
       effects |-> set.effects \o touchHandle.effects]

\* variant: moveHandle committing through setInternalState
moveHandleInternal(clientY) ==
  LET newVal == _calcTouchVal(clientY)
  IN  setInternalState(newVal)

moveHandle(clientY) ==
  LET newVal == _calcTouchVal(clientY)
  IN  setState(newVal)

\* variant: releaseHandle forgetting the touchend registration
releaseHandleLeak ==
  [listeners |-> bodyListeners \ Range(SubSeq(ReleaseHandleRemoves, 1, 3)),
   effects |-> ListenerEffects("removeEventListener",
                               SubSeq(ReleaseHandleRemoves, 1, 3))]

releaseHandle ==
  [listeners |-> bodyListeners \ Range(ReleaseHandleRemoves),
   effects |-> ListenerEffects("removeEventListener", ReleaseHandleRemoves)]

\* ------------------------------------------------------------------------
\* Slider: inputs
\* ------------------------------------------------------------------------
SliderObserverIds == {"obsA", "obsB"}
MoveTypes == {"mousemove", "touchmove"}
UpTypes == {"mouseup", "touchend"}
\* vertical pointer positions, from above the container to below it
ClientYs == {3, 12, 13, 14, 16, 18, 20, 30}

Dragging == bodyListeners # {}
Idle == bodyListeners = {}

Bump(n) == IF n < MaxMoves THEN n + 1 ELSE n

\* ------------------------------------------------------------------------
\* Slider: construction
\* ------------------------------------------------------------------------
SliderInit ==
  /\ o \in SliderOptions
  /\ height \in Heights
  /\ top \in Tops
  /\ state = [val |-> JsNum(o.minVal)]
  /\ handleY0 = _calcSliderHandleY0(JsNum(o.minVal))
  /\ bodyListeners = {}
  /\ sObservers = <<>>
  /\ sLast = Op("constructor", Int2Rat(0))
  /\ sEffects = <<>>
  /\ sMoves = 0
  /\ sDowns = 0

\* ------------------------------------------------------------------------
\* Slider: operations and events
\* ------------------------------------------------------------------------
\* slider.subscribe(observer)
SliderSubscribe(obs) ==
  /\ Len(sObservers) < MaxObservers
  /\ sObservers' = Append(sObservers, obs)
  /\ sLast' = Op("subscribe", Int2Rat(0))
  /\ sEffects' = <<>>
  /\ UNCHANGED <<o, height, top, state, handleY0, bodyListeners, sMoves,
                 sDowns>>
  /\ UNCHANGED menuVars

\* slider.setVal(x)
SetVal(x) ==
  \E r \in {setVal(x)} :
    /\ state' = [val |-> r.val]
    /\ handleY0' = _calcSliderHandleY0(r.val)
    /\ sEffects' = r.effects
    /\ sLast' = Op("setVal", x)
    /\ UNCHANGED <<o, height, top, bodyListeners, sObservers, sMoves,
                   sDowns>>
    /\ UNCHANGED menuVars

\* slider.setInternalVal(x)
SetInternalVal(x) ==
  \E r \in {setInternalVal(x)} :
    /\ state' = [val |-> r.val]
    /\ handleY0' = _calcSliderHandleY0(r.val)
    /\ sEffects' = r.effects
    /\ sLast' = Op("setInternalVal", x)
    /\ UNCHANGED <<o, height, top, bodyListeners, sObservers, sMoves,
                   sDowns>>
    /\ UNCHANGED menuVars

\* mousedown or touchstart on svgEls.overlay (both are registered with
\* handlers.touchBody)
OverlayDown(clientY) ==
  \E r \in {touchBody(Int2Rat(clientY))} :
    /\ state' = [val |-> r.val]
    /\ handleY0' = _calcSliderHandleY0(r.val)
    /\ bodyListeners' = r.listeners
    /\ sEffects' = r.effects
    /\ sLast' = Op("touchBody", Int2Rat(clientY))
    /\ sMoves' = 0
    /\ sDowns' = IF Idle THEN 1 ELSE Bump(sDowns)
    /\ UNCHANGED <<o, height, top, sObservers>>
    /\ UNCHANGED menuVars

\* variant: svgEls.handle registered with handlers.touchBody
HandleDownAsBody ==
  \E clientY \in ClientYs :
    \E r \in {touchBody(Int2Rat(clientY))} :
      /\ state' = [val |-> r.val]
      /\ handleY0' = _calcSliderHandleY0(r.val)
      /\ bodyListeners' = r.listeners
      /\ sEffects' = r.effects
      /\ sLast' = Op("touchHandle", Int2Rat(0))
      /\ sMoves' = 0
      /\ sDowns' = IF Idle THEN 1 ELSE Bump(sDowns)
      /\ UNCHANGED <<o, height, top, sObservers>>
      /\ UNCHANGED menuVars

\* mousedown or touchstart on svgEls.handle (both are registered with
\* handlers.touchHandle)
HandleDown ==
  \E r \in {touchHandle} :
    /\ bodyListeners' = r.listeners
    /\ sEffects' = r.effects
    /\ sLast' = Op("touchHandle", Int2Rat(0))
    /\ sMoves' = 0
    /\ sDowns' = IF Idle THEN 1 ELSE Bump(sDowns)
    /\ UNCHANGED <<o, height, top, state, handleY0, sObservers>>
    /\ UNCHANGED menuVars

\* variant: moveHandle registered on document.body once and for all
BodyMoveAlways(type, clientY) ==
  /\ \E r \in {moveHandle(Int2Rat(clientY))} :
       /\ state' = [val |-> r.val]
       /\ handleY0' = _calcSliderHandleY0(r.val)
       /\ sEffects' = r.effects
       /\ sLast' = Op("moveHandle", Int2Rat(clientY))
       /\ sMoves' = Bump(sMoves)
  /\ UNCHANGED <<o, height, top, bodyListeners, sObservers, sDowns>>
  /\ UNCHANGED menuVars

\* mousemove / touchmove reaching document.body
BodyMove(type, clientY) ==
  /\ IF <<type, "moveHandle">> \in bodyListeners
     THEN \E r \in {moveHandle(Int2Rat(clientY))} :
            /\ state' = [val |-> r.val]
            /\ handleY0' = _calcSliderHandleY0(r.val)
            /\ sEffects' = r.effects
            /\ sLast' = Op("moveHandle", Int2Rat(clientY))
            /\ sMoves' = Bump(sMoves)
     ELSE /\ sLast' = Op("move unheard", Int2Rat(0))
          /\ sEffects' = <<>>
          /\ UNCHANGED <<state, handleY0, sMoves>>
  /\ UNCHANGED <<o, height, top, bodyListeners, sObservers, sDowns>>
  /\ UNCHANGED menuVars

\* mouseup / touchend reaching document.body
BodyUp(type) ==
  /\ IF <<type, "releaseHandle">> \in bodyListeners
     THEN \E r \in {releaseHandle} :
            /\ bodyListeners' = r.listeners
            /\ sEffects' = r.effects
            /\ sLast' = Op("releaseHandle", Int2Rat(0))
     ELSE /\ sLast' = Op("up unheard", Int2Rat(0))
          /\ sEffects' = <<>>
          /\ UNCHANGED bodyListeners
  /\ UNCHANGED <<o, height, top, state, handleY0, sObservers, sMoves,
                 sDowns>>
  /\ UNCHANGED menuVars

\* ------------------------------------------------------------------------
\* LiveDropMenu: helpers
\* ------------------------------------------------------------------------
\* o.menuItemFontSize || o.UImenuItemFontSize || '12px'
_UImenuItemFontSize == [num |-> 12, unit |-> "px"]

\* parseInt of a CSS length: its leading decimal numeral
parseInt(str) == str.num

_getMenuItemHeight == parseInt(_UImenuItemFontSize) * 2

\* the height of _getDdCanvasDimensions (the width needs measureText)
_getDdCanvasHeight(items) == _getMenuItemHeight * Len(items)

\* Math.trunc(a / b) for integers a and b > 0
MathTrunc(a, b) == IF a >= 0 THEN a \div b ELSE -((-a) \div b)

\* variant: notifyObservers called before _selectedItemNum is assigned
notifyObserversStale(selected) ==
  [i \in 1..Len(_observers) |->
     [context |-> _observers[i].context, func |-> _observers[i].func,
      arg |-> _selectedItemNum]]

\* the calls notifyObservers makes, in order, when _selectedItemNum = selected
notifyObservers(selected) ==
  [i \in 1..Len(_observers) |->
     [context |-> _observers[i].context, func |-> _observers[i].func,
      arg |-> selected]]

subscribe(context, func) ==
  Append(_observers, [context |-> context, func |-> func])

\* this.observers: the class defines _observers, and no property "observers"
thisObservers == "undefined"

\* unsubscribe reads this.observers.filter
unsubscribe(context, func) ==
  IF thisObservers = "undefined"
  THEN [observers |-> _observers, thrown |-> "TypeError"]
  ELSE [observers |->
          SelectSeq(thisObservers,
                    LAMBDA observer : \/ observer.context # context
                                      \/ observer.func # func),
        thrown |-> "none"]

\* the listeners of _assignListeners, each on the fields it writes
mouseDownListener ==
  [visibility |-> "visible",
   ddListeners |-> ddListeners \cup {<<"mousemove", "mouseMoveListener">>},
   docListeners |-> docListeners \cup
                      {<<"mousedown", "secondMouseDownListener">>}]

secondMouseDownListener(registered, target) ==
  IF target # "canvas"
  THEN registered \cup {<<"mouseup", "mouseUpListener">>}
  ELSE registered

\* variant: mouseMoveListener rounding to the nearest row boundary
mouseMoveListenerRound(clientY) ==
  LET ddCanvasY == clientY - ddStyle.top
  IN  MathTrunc(2 * ddCanvasY + _getMenuItemHeight, 2 * _getMenuItemHeight)

mouseMoveListener(clientY) ==
  LET ddCanvasY == clientY - ddStyle.top
  IN  MathTrunc(ddCanvasY, _getMenuItemHeight)

\* variant: mouseUpListener committing wherever the pointer is released
mouseUpListenerAnyTarget(target) ==
  LET commit == _hoverItemNum # -1
      selected == IF commit THEN _hoverItemNum ELSE _selectedItemNum
  IN  [visibility |-> "hidden",
       selectedItemNum |-> selected,
       calls |-> IF commit THEN notifyObservers(selected) ELSE <<>>,
       hoverItemNum |-> -1,
       docListeners |-> docListeners \ {<<"mouseup", "mouseUpListener">>}]

\* variant: mouseUpListener toggling the overlay's visibility
mouseUpListenerToggle(target) ==
  LET commit == _hoverItemNum # -1 /\ target = "ddCanvas"
      selected == IF commit THEN _hoverItemNum ELSE _selectedItemNum
  IN  [visibility |-> IF ddVisibility = "visible" THEN "hidden" ELSE "visible",
       selectedItemNum |-> selected,
       calls |-> IF commit THEN notifyObservers(selected) ELSE <<>>,
       hoverItemNum |-> -1,
       docListeners |-> docListeners \ {<<"mouseup", "mouseUpListener">>}]

mouseUpListener(target) ==
  LET commit == _hoverItemNum # -1 /\ target = "ddCanvas"
      selected == IF commit THEN _hoverItemNum ELSE _selectedItemNum
  IN  [visibility |-> "hidden",
       selectedItemNum |-> selected,
       calls |-> IF commit THEN notifyObservers(selected) ELSE <<>>,
       hoverItemNum |-> -1,
       docListeners |-> docListeners \ {<<"mouseup", "mouseUpListener">>}]

\* ------------------------------------------------------------------------
\* LiveDropMenu: inputs
\* ------------------------------------------------------------------------
MenuItemLists == { <<>>, <<"A", "B">>, <<"A", "B", "C">> }
\* <<context, func>> pairs handed to subscribe and unsubscribe
ObserverPairs == { <<"ctxA", "f">>, <<"ctxA", "g">>, <<"ctxB", "f">> }
Targets == {"canvas", "ddCanvas", "other"}
\* on-screen positions of the closed box
Layouts == { [left |-> 10, bottom |-> 30], [left |-> 40, bottom |-> 60] }
\* vertical offsets into a row of the overlay
RowOffsets == {0, 23}

MOp(op, target, context, func, n) ==
  [op |-> op, target |-> target, context |-> context, func |-> func, n |-> n]

Open == ddVisibility = "visible"
Closed == ddVisibility = "hidden"

\* ------------------------------------------------------------------------
\* LiveDropMenu: construction
\* ------------------------------------------------------------------------
MenuInit ==
  /\ _observers = <<>>
  /\ _menuItems \in MenuItemLists
  /\ _selectedItemNum = 0
  /\ _hoverItemNum = -1
  /\ canvasRect \in Layouts
  /\ ddHeight = _getDdCanvasHeight(_menuItems)
  /\ ddVisibility = "hidden"
  /\ ddStyle = [left |-> canvasRect.left, top |-> canvasRect.bottom]
  /\ ddListeners = {}
  /\ docListeners = {}
  /\ mLast = MOp("constructor", "", "", "", 0)
  /\ mCalls = <<>>
  /\ mThrown = "none"
  /\ mGesture = <<>>
  /\ mHoverRow = -1
  /\ mFound = ""

\* ------------------------------------------------------------------------
\* LiveDropMenu: operations and events
\* ------------------------------------------------------------------------
\* The pointer events since the menu opened, kept while they follow
\*   open, [hover], [press], up
\* (open: mousedown on the closed box of a closed menu; hover: mousemoves
\* over the overlay; press: a mousedown elsewhere than on the closed box;
\* up: a mouseup) and <<>> otherwise.
GestureAfterDown(target) ==
  IF target = "canvas"
  THEN IF Closed THEN <<"open">> ELSE <<>>
  ELSE IF mGesture \in {<<"open">>, <<"open", "hover">>}
       THEN Append(mGesture,
                   IF target = "ddCanvas" THEN "pressOverlay" ELSE "pressOther")
       ELSE <<>>

GestureAfterMove ==
  IF mGesture \in {<<"open">>, <<"open", "hover">>}
  THEN <<"open", "hover">>
  ELSE <<>>

GestureAfterUp(target) ==
  IF mGesture # <<>> /\ mGesture[Len(mGesture)] \notin {"upOverlay", "upOther"}
  THEN Append(mGesture,
              IF target = "ddCanvas" THEN "upOverlay" ELSE "upOther")
  ELSE <<>>

\* menu.subscribe(context, func)
MenuSubscribe(context, func) ==
  /\ Len(_observers) < MaxObservers
  /\ _observers' = subscribe(context, func)
  /\ mLast' = MOp("subscribe", "", context, func, 0)
  /\ mFound' = ""
  /\ mCalls' = <<>>
  /\ mThrown' = "none"
  /\ UNCHANGED <<_menuItems, _selectedItemNum, _hoverItemNum, ddVisibility,
                 ddStyle, ddHeight, canvasRect, ddListeners, docListeners,
                 mGesture, mHoverRow>>
  /\ UNCHANGED sliderVars

\* menu.unsubscribe(context, func)
MenuUnsubscribe(context, func) ==
  /\ \E r \in {unsubscribe(context, func)} :
       /\ _observers' = r.observers
       /\ mThrown' = r.thrown
  /\ mLast' = MOp("unsubscribe", "", context, func, 0)
  /\ mFound' = ""
  /\ mCalls' = <<>>
  /\ UNCHANGED <<_menuItems, _selectedItemNum, _hoverItemNum, ddVisibility,
                 ddStyle, ddHeight, canvasRect, ddListeners, docListeners,
                 mGesture, mHoverRow>>
  /\ UNCHANGED sliderVars

\* menu.menuItems = newMenuItems
SetMenuItems(newMenuItems) ==
  /\ _menuItems' = newMenuItems
  /\ ddHeight' = _getDdCanvasHeight(newMenuItems)
  /\ mLast' = MOp("menuItems", "", "", "", Len(newMenuItems))
  /\ mFound' = ""
  /\ mCalls' = <<>>
  /\ mThrown' = "none"
  /\ mGesture' = <<>>
  /\ UNCHANGED <<_observers, _selectedItemNum, _hoverItemNum, ddVisibility,
                 ddStyle, canvasRect, ddListeners, docListeners, mHoverRow>>
  /\ UNCHANGED sliderVars

\* the page lays the closed box out elsewhere
Relayout(rect) ==
  /\ rect # canvasRect
  /\ canvasRect' = rect
  /\ mLast' = MOp("relayout", "", "", "", 0)
  /\ mFound' = ""
  /\ mCalls' = <<>>
  /\ mThrown' = "none"
  /\ UNCHANGED <<_observers, _menuItems, _selectedItemNum, _hoverItemNum,
                 ddVisibility, ddStyle, ddHeight, ddListeners, docListeners,
                 mGesture, mHoverRow>>
  /\ UNCHANGED sliderVars

\* whether a pointer event can have this target: a hidden or empty overlay
\* receives none
CanTarget(target) == target = "ddCanvas" => Open /\ ddHeight > 0

\* mousedown with the given target: the listeners of the target, then those
\* of document (the event bubbles; a listener added to document by a
\* listener of the target is called for the same event)
MouseDown(target) ==
  /\ CanTarget(target)
  /\ \E atTarget \in
          { IF target = "canvas"
            THEN mouseDownListener
            ELSE [visibility |-> ddVisibility,
                  ddListeners |-> ddListeners,
                  docListeners |-> docListeners] } :
       /\ ddVisibility' = atTarget.visibility
       /\ ddListeners' = atTarget.ddListeners
       /\ docListeners' =
            IF <<"mousedown", "secondMouseDownListener">>
                 \in atTarget.docListeners
            THEN secondMouseDownListener(atTarget.docListeners, target)
            ELSE atTarget.docListeners
  /\ mGesture' = GestureAfterDown(target)
  /\ mLast' = MOp("mousedown", target, "", "", 0)
  /\ mFound' = ddVisibility
  /\ mCalls' = <<>>
  /\ mThrown' = "none"
  /\ UNCHANGED <<_observers, _menuItems, _selectedItemNum, _hoverItemNum,
                 ddStyle, ddHeight, canvasRect, mHoverRow>>
  /\ UNCHANGED sliderVars

\* mousemove over the overlay, row and offset giving the pointer's position
DdMouseMove(row, offset) ==
  /\ CanTarget("ddCanvas")
  /\ <<"mousemove", "mouseMoveListener">> \in ddListeners
  /\ \E clientY \in {ddStyle.top + row * _getMenuItemHeight + offset} :
       /\ clientY < ddStyle.top + ddHeight
       /\ _hoverItemNum' = mouseMoveListener(clientY)
       /\ mLast' = MOp("mousemove", "ddCanvas", "", "", clientY)
  /\ mHoverRow' = row
  /\ mFound' = ddVisibility
  /\ mGesture' = GestureAfterMove
  /\ mCalls' = <<>>
  /\ mThrown' = "none"
  /\ UNCHANGED <<_observers, _menuItems, _selectedItemNum, ddVisibility,
                 ddStyle, ddHeight, canvasRect, ddListeners, docListeners>>
  /\ UNCHANGED sliderVars

\* mousemove elsewhere than over the overlay: the widget has no listener
\* for it (mouseMoveListener is registered on the overlay alone)
MouseMoveElsewhere(target) ==
  /\ target # "ddCanvas"
  /\ mLast' = MOp("mousemove", target, "", "", 0)
  /\ mFound' = ddVisibility
  /\ mCalls' = <<>>
  /\ mThrown' = "none"
  /\ UNCHANGED <<_observers, _menuItems, _selectedItemNum, _hoverItemNum,
                 ddVisibility, ddStyle, ddHeight, canvasRect, ddListeners,
                 docListeners, mGesture, mHoverRow>>
  /\ UNCHANGED sliderVars

\* mouseup with the given target, reaching document; mLast.n keeps the
\* _hoverItemNum the event found
MouseUp(target) ==
  /\ CanTarget(target)
  /\ IF <<"mouseup", "mouseUpListener">> \in docListeners
     THEN \E r \in {mouseUpListener(target)} :
            /\ ddVisibility' = r.visibility
            /\ _selectedItemNum' = r.selectedItemNum
            /\ _hoverItemNum' = r.hoverItemNum
            /\ docListeners' = r.docListeners
            /\ mCalls' = r.calls
            /\ mLast' = MOp("mouseUpListener", target, "", "", _hoverItemNum)
            /\ mHoverRow' = -1
     ELSE /\ mLast' = MOp("mouseup unheard", target, "", "", _hoverItemNum)
          /\ mCalls' = <<>>
          /\ UNCHANGED <<ddVisibility, _selectedItemNum, _hoverItemNum,
                         docListeners, mHoverRow>>
  /\ mGesture' = GestureAfterUp(target)
  /\ mFound' = ddVisibility
  /\ mThrown' = "none"
  /\ UNCHANGED <<_observers, _menuItems, ddStyle, ddHeight, canvasRect,
                 ddListeners>>
  /\ UNCHANGED sliderVars

\* ------------------------------------------------------------------------
\* Specifications: one widget each, the other as constructed
\* ------------------------------------------------------------------------
vars == <<sliderVars, menuVars>>

SliderIdle ==
  /\ o = DefaultOptions
  /\ height = 14
  /\ top = 7
  /\ state = [val |-> JsNum(o.minVal)]
  /\ handleY0 = _calcSliderHandleY0(JsNum(o.minVal))
  /\ bodyListeners = {}
  /\ sObservers = <<>>
  /\ sLast = Op("constructor", Int2Rat(0))
  /\ sEffects = <<>>
  /\ sMoves = 0
  /\ sDowns = 0

MenuIdle ==
  /\ _observers = <<>>
  /\ _menuItems = <<>>
  /\ _selectedItemNum = 0
  /\ _hoverItemNum = -1
  /\ canvasRect = [left |-> 10, bottom |-> 30]
  /\ ddHeight = 0
  /\ ddVisibility = "hidden"
  /\ ddStyle = [left |-> 10, top |-> 30]
  /\ ddListeners = {}
  /\ docListeners = {}
  /\ mLast = MOp("constructor", "", "", "", 0)
  /\ mCalls = <<>>
  /\ mThrown = "none"
  /\ mGesture = <<>>
  /\ mHoverRow = -1
  /\ mFound = ""

SliderNext ==
  \/ \E obs \in SliderObserverIds : SliderSubscribe(obs)
  \/ \E x \in SetArgs : SetVal(x)
  \/ \E x \in SetArgs : SetInternalVal(x)
  \/ \E clientY \in ClientYs : OverlayDown(clientY)
  \/ HandleDown
  \/ \E type \in MoveTypes, clientY \in ClientYs : BodyMove(type, clientY)
  \/ \E type \in UpTypes : BodyUp(type)

MenuNext ==
  \/ \E pair \in ObserverPairs : MenuSubscribe(pair[1], pair[2])
  \/ \E pair \in ObserverPairs : MenuUnsubscribe(pair[1], pair[2])
  \/ \E items \in MenuItemLists : SetMenuItems(items)
  \/ \E rect \in Layouts : Relayout(rect)
  \/ \E target \in Targets : MouseDown(target)
  \/ \E row \in 0..2, offset \in RowOffsets : DdMouseMove(row, offset)
  \/ \E target \in Targets : MouseMoveElsewhere(target)
  \/ \E target \in Targets : MouseUp(target)

SliderSpecInit == SliderInit /\ MenuIdle

MenuSpecInit == MenuInit /\ SliderIdle

SliderSpec == SliderSpecInit /\ [][SliderNext]_vars

MenuSpec == MenuSpecInit /\ [][MenuNext]_vars

\* either widget in use, the other staying as constructed: the behaviours
\* of SliderSpec together with those of MenuSpec
WidgetsInit == SliderSpecInit \/ MenuSpecInit

WidgetsNext ==
  \/ MenuIdle /\ SliderNext
  \/ SliderIdle /\ MenuNext

WidgetsSpec == WidgetsInit /\ [][WidgetsNext]_vars

\* ------------------------------------------------------------------------
\* Properties
\* ------------------------------------------------------------------------
Positions(e) == {i \in DOMAIN sEffects : sEffects[i].e = e}

\* the notifications among the effects of the last slider operation
Notifications ==
  SelectSeq(sEffects, LAMBDA eff : eff.e = "notify")

\* one notification per registry entry, in order, each carrying v
OncePerObserver(v) ==
  [i \in 1..Len(sObservers) |-> Effect("notify", sObservers[i], v)]

\* C1: after the pointer-up that ends a drag (releaseHandle has run), the
\* Slider has no registration left on document.body: the set is what it was
\* before the pointer-down, empty.
C1_SliderListenerBalance ==
  sLast.op = "releaseHandle" => bodyListeners = {}

C1_Witness ==
  /\ sLast.op = "releaseHandle"
  /\ sMoves >= 1
  /\ bodyListeners = {}

\* C2: the LiveDropMenu holds registrations on document only while it is
\* Open; once the overlay is hidden again the set is what it was before the
\* menu opened, empty.
C2_MenuListenerBalance ==
  Closed => docListeners = {}

\* C3: setInternalVal(v) notifies no observer, setVal(v) notifies every
\* subscribed observer exactly once with the validated v, and both leave
\* getVal() at the validated v.
C3_NotificationAsymmetry ==
  LET validated == ConstraintApply(stateConstraints, sLast.arg)
  IN  /\ sLast.op = "setInternalVal" =>
           Notifications = <<>> /\ getVal = validated
      /\ sLast.op = "setVal" =>
           Notifications = OncePerObserver(validated) /\ getVal = validated

C3_Witness ==
  /\ sLast.op = "setInternalVal"
  /\ Len(sObservers) >= 1
  /\ Notifications = <<>>
  /\ getVal # JsNum(o.minVal)

\* C4: getVal() lies within [minVal, maxVal] in every reachable state.
C4_RangeInvariant ==
  /\ RLe(o.minVal, ToNumber(getVal))
  /\ RLe(ToNumber(getVal), o.maxVal)

\* what a commit leaves behind when the pointer was over row i: the row is
\* selected, the overlay hidden, no row hovered, and every registry entry
\* called once, in order, with i
CommittedRow(i) ==
  /\ i \in 0 .. Len(_menuItems) - 1
  /\ _selectedItemNum' = i
  /\ ddVisibility' = "hidden"
  /\ _hoverItemNum' = -1
  /\ mCalls' = [k \in 1..Len(_observers) |->
                  [context |-> _observers[k].context,
                   func |-> _observers[k].func, arg |-> i]]

\* C5 (as claimed): open, hover to row i, release over the overlay commits
\* row i.
C5_CommitOnRelease ==
  [][ (/\ mGesture = <<"open", "hover">>
       /\ mGesture' = <<"open", "hover", "upOverlay">>)
      => CommittedRow(mHoverRow) ]_vars

\* C5 (amended): open, hover to row i, pointer-down on the overlay, release
\* over the overlay commits row i: selectedItemNum == i, the overlay hidden,
\* hoverItemNum == -1, every registry entry called exactly once with i.
C5_CommitAfterPress ==
  [][ (/\ mGesture = <<"open", "hover", "pressOverlay">>
       /\ mGesture' = <<"open", "hover", "pressOverlay", "upOverlay">>)
      => CommittedRow(mHoverRow) ]_vars

C5_Witness ==
  /\ mGesture = <<"open", "hover", "pressOverlay", "upOverlay">>
  /\ mLast.op = "mouseUpListener"
  /\ _selectedItemNum = 2
  /\ Closed
  /\ Len(mCalls) >= 1
  /\ mCalls[1].arg = 2

\* C6: while Open, after a pointer-down elsewhere than on the closed box, a
\* pointer-up whose target is not the overlay hides the overlay, leaves
\* selectedItemNum as it was whatever hoverItemNum was, and calls no
\* observer.
C6_CancelKeepsSelection ==
  [][ (/\ Open
       /\ mLast.op = "mousedown"
       /\ mLast.target # "canvas"
       /\ mLast'.op \in {"mouseUpListener", "mouseup unheard"}
       /\ mLast'.target # "ddCanvas")
      => (/\ ddVisibility' = "hidden"
          /\ _selectedItemNum' = _selectedItemNum
          /\ mCalls' = <<>>) ]_vars

C6_Witness ==
  /\ mGesture = <<"open", "hover", "pressOther", "upOther">>
  /\ mLast.op = "mouseUpListener"
  /\ mLast.n >= 0
  /\ mLast.n # _selectedItemNum
  /\ Len(_observers) >= 1
  /\ mCalls = <<>>
  /\ Closed

\* C7: after unsubscribe(context, callback) no registry entry has both that
\* context and that callback.
C7_UnsubscribeRemoves ==
  mLast.op = "unsubscribe" =>
    \A i \in DOMAIN _observers :
      ~(/\ _observers[i].context = mLast.context
        /\ _observers[i].func = mLast.func)

\* C8: a commit calls every entry of the registry exactly once, in
\* subscription order, with the entry's context as receiver and the newly
\* committed selectedItemNum as argument; subscribe appends its pair to the
\* end of the registry and calls nobody.
C8_NotificationOrder ==
  [][ /\ (/\ mLast'.op = "mouseUpListener"
          /\ mLast'.target = "ddCanvas"
          /\ _hoverItemNum # -1)
         => (/\ _selectedItemNum' = _hoverItemNum
             /\ mCalls' = [k \in 1..Len(_observers) |->
                             [context |-> _observers[k].context,
                              func |-> _observers[k].func,
                              arg |-> _selectedItemNum']])
      /\ mLast'.op = "subscribe"
         => (/\ _observers' =
                  Append(_observers, [context |-> mLast'.context,
                                      func |-> mLast'.func])
             /\ mCalls' = <<>>) ]_vars

C8_Witness ==
  /\ mLast.op = "mouseUpListener"
  /\ mLast.target = "ddCanvas"
  /\ Len(mCalls) = 2
  /\ mCalls[1].context # mCalls[2].context
  /\ mCalls[1].arg = _selectedItemNum
  /\ _selectedItemNum # 0

\* C9: the value _calcTouchVal gives for the on-screen position of the
\* drawn handle (y0 of _calcSliderHandlePoints) is state.val, to within the
\* rounding of the transform (half a unit).
C9_GeometryRoundTrip ==
  LET drawnAt == RAdd(handleY0, Int2Rat(top))
      back == _calcTouchVal(drawnAt)
  IN  RLe(RAbs(RSub(back, ToNumber(getVal))), Rat(1, 2))

\* the vertical midpoint of the slider body, on screen
BodyMidpoint ==
  RAdd(Int2Rat(top + offsetTop), Rat(_calcSliderBodyHeight, 2))

\* C10: a pointer-down on the body overlay commits the value computed from
\* the touch position through setState exactly once, every observer being
\* called once with the validated value, and only then registers the
\* document listeners that make the Slider Dragging; with minVal = 0 and
\* maxVal = 127 a touch at the body's midpoint commits 63 or 64.
C10_SliderJump ==
  sLast.op = "touchBody" =>
    LET validated ==
          ConstraintApply(stateConstraints, _calcTouchVal(sLast.arg))
    IN  /\ getVal = validated
        /\ Cardinality(Positions("state")) = 1
        /\ Notifications = OncePerObserver(validated)
        /\ Positions("addEventListener") # {}
        /\ Dragging
        /\ \A i \in Positions("state") \cup Positions("notify"),
              j \in Positions("addEventListener") : i < j
        /\ (o = DefaultOptions /\ sLast.arg = BodyMidpoint)
           => ToNumber(validated) \in {Int2Rat(63), Int2Rat(64)}

C10_Witness ==
  /\ sLast.op = "touchBody"
  /\ o = DefaultOptions
  /\ sLast.arg = BodyMidpoint
  /\ Len(sObservers) >= 1
  /\ Len(Notifications) >= 1
  /\ getVal = JsStr(Int2Rat(64))
  /\ Dragging

\* numeric inputs of the Constraint: the arguments of setVal, the value held,
\* and what _calcTouchVal computes for the pointer positions
NumericInputs ==
  SetArgs \cup {ToNumber(getVal)}
          \cup {_calcTouchVal(Int2Rat(y)) : y \in ClientYs}

\* C11: for the Slider's val Constraint (clamp into [minVal, maxVal], then
\* toFixed(0)) and every numeric x, applying the Constraint to its own
\* output returns that same output: apply(apply(x)) = apply(x).
C11_ClampIdempotence ==
  \A x \in NumericInputs :
    LET once == ConstraintApply(stateConstraints, x)
    IN  ConstraintApply(stateConstraints, ToNumber(once)) = once

\* the Constraint has clamped and rounded, and its output lies outside
\* [minVal, maxVal]
C11_Witness ==
  /\ sLast.op = "setVal"
  /\ sLast.arg = Int2Rat(200)
  /\ o.maxVal = Rat(3, 2)
  /\ getVal = JsStr(Int2Rat(2))
  /\ ConstraintApply(stateConstraints, ToNumber(getVal)) = getVal

\* C12: while the Slider is Dragging, every pointer-move reaching the
\* document, wherever the pointer is, is handled by moveHandle: the value
\* computed from the pointer's vertical position is committed through
\* setState and every subscribed observer is called exactly once with it
\* (one round of notifications per move); a pointer-up commits nothing and
\* calls no observer.
C12_LiveDragFeedback ==
  [][ /\ (Dragging /\ sLast'.op \in {"moveHandle", "move unheard"})
         => (/\ sLast'.op = "moveHandle"
             /\ getVal' = ConstraintApply(stateConstraints,
                                          _calcTouchVal(sLast'.arg))
             /\ Cardinality(Positions("state")') = 1
             /\ Notifications' = OncePerObserver(getVal)')
      /\ sLast'.op \in {"releaseHandle", "up unheard"}
         => (/\ state' = state
             /\ Positions("state")' = {}
             /\ Notifications' = <<>>) ]_vars

\* the second move of a drag, with the pointer above the container, has
\* notified both observers
C12_Witness ==
  /\ sLast.op = "moveHandle"
  /\ sLast.arg = Int2Rat(3)
  /\ sMoves >= 2
  /\ Len(sObservers) = 2
  /\ Notifications = OncePerObserver(getVal)
  /\ Dragging

\* C13: whenever a pointer-down on the closed box has just opened the menu,
\* the overlay's left/top is the closed box's on-screen left/bottom as it is
\* at that moment, also when the box was laid out elsewhere since
\* construction or since the previous open.
C13_OverlayRepositioned ==
  (/\ mLast.op = "mousedown"
   /\ mLast.target = "canvas"
   /\ mGesture = <<"open">>)
  => ddStyle = [left |-> canvasRect.left, top |-> canvasRect.bottom]

\* the pointer is where its last event was targeted
PointerEvents == {"mousedown", "mousemove", "mouseUpListener",
                  "mouseup unheard"}
PointerOff ==
  mLast.op \in PointerEvents /\ mLast.target # "ddCanvas"

\* C14: whenever the overlay is hidden hoverItemNum is -1, and while it is
\* visible hoverItemNum is -1 whenever the pointer is not over the overlay.
C14_HoverReset ==
  /\ Closed => _hoverItemNum = -1
  /\ (Open /\ PointerOff) => _hoverItemNum = -1

\* C15: selectedItemNum is a valid index into the current menuItems,
\* 0 <= selectedItemNum < menuItems.length, in every reachable state.
C15_SelectionValid ==
  /\ 0 <= _selectedItemNum
  /\ _selectedItemNum < Len(_menuItems)

\* the registrations of one event type among regs
OfType(regs, type) == {reg \in regs : reg[1] = type}

\* C16: in every reachable state each widget holds at most one registration
\* per event type on the document (each type has one callback); after a
\* pointer-up, whatever the number of pointer-downs on the Slider before
\* it, the Slider holds no document-level registration; and however often
\* the LiveDropMenu was opened its registrations on document are at most
\* secondMouseDownListener and mouseUpListener, once each.
C16_SingleAttachment ==
  /\ \A type \in MoveTypes \cup UpTypes :
       Cardinality(OfType(bodyListeners, type)) <= 1
  /\ sLast.op \in {"releaseHandle", "up unheard"} => bodyListeners = {}
  /\ \A type \in {"mousedown", "mousemove", "mouseup"} :
       Cardinality(OfType(docListeners, type)) <= 1
  /\ docListeners \subseteq {<<"mousedown", "secondMouseDownListener">>,
                             <<"mouseup", "mouseUpListener">>}

\* one release after several pointer-downs
C16_Witness ==
  /\ sLast.op = "releaseHandle"
  /\ sDowns >= 2
  /\ bodyListeners = {}

\* on-screen y of the two ends of the slider body (_calcSliderBodyPos:
\* the body starts offsetTop below the container's top)
BodyTopEnd == top + offsetTop
BodyBottomEnd == BodyTopEnd + _calcSliderBodyHeight

\* C17: _calcTouchVal maps a pointer at the top end of the slider body to
\* maxVal and at the bottom end to minVal, falls by the same amount,
\* (maxVal - minVal) / body height, for every pixel in between, and never
\* increases when the pointer moves down, inside or outside the body.
C17_GeometryEndpoints ==
  LET ys == (BodyTopEnd .. BodyBottomEnd) \cup ClientYs
      perPixel == RDiv(RSub(o.maxVal, o.minVal),
                       Int2Rat(_calcSliderBodyHeight))
  IN  \A tv \in {[y \in ys |-> _calcTouchVal(Int2Rat(y))]} :
        /\ tv[BodyTopEnd] = o.maxVal
        /\ tv[BodyBottomEnd] = o.minVal
        /\ \A y \in BodyTopEnd .. (BodyBottomEnd - 1) :
             RSub(tv[y], tv[y + 1]) = perPixel
        /\ \A y1, y2 \in ys : y1 <= y2 => RLe(tv[y2], tv[y1])

\* a touch at the top end of the body of a slider from 2 to 6 has
\* committed 6
C17_Witness ==
  /\ sLast.op = "touchBody"
  /\ sLast.arg = Int2Rat(BodyTopEnd)
  /\ o.minVal = Int2Rat(2)
  /\ _calcTouchVal(sLast.arg) = o.maxVal
  /\ getVal = JsStr(Int2Rat(6))

\* C18: while the Slider is Idle a pointer-move or pointer-up anywhere in
\* the document leaves state.val as it was and calls no observer, and
\* state.val changes only in a step of setVal, setInternalVal, a body
\* touch, or a pointer-move while Dragging.
C18_IdleInert ==
  [][ /\ (/\ Idle
          /\ sLast'.op \in {"moveHandle", "move unheard", "releaseHandle",
                             "up unheard"})
         => (/\ state' = state
             /\ sEffects' = <<>>)
      /\ state' # state
         => (\/ sLast'.op \in {"setVal", "setInternalVal", "touchBody"}
             \/ sLast'.op = "moveHandle" /\ Dragging) ]_vars

\* a pointer-move after a drag has ended, observers subscribed, the value
\* still what the drag left
C18_Witness ==
  /\ sLast.op = "move unheard"
  /\ Idle
  /\ sDowns >= 1
  /\ sMoves >= 1
  /\ Len(sObservers) >= 1
  /\ getVal # JsNum(o.minVal)
  /\ sEffects = <<>>

\* C19: a pointer-down on the handle makes the Slider Dragging (the four
\* document.body registrations are held) and leaves state.val unchanged,
\* calling no observer; a pointer-down commits a value only when it is on
\* the body (touchBody).
C19_HandleGrab ==
  [][ /\ sLast'.op = "touchHandle"
         => (/\ state' = state
             /\ Positions("state")' = {}
             /\ Notifications' = <<>>
             /\ Range(TouchHandleAdds) \subseteq bodyListeners'
             /\ Dragging')
      /\ sLast'.op = "touchBody"
         => (/\ Cardinality(Positions("state")') = 1
             /\ Dragging') ]_vars

\* the handle grabbed while Idle, observers subscribed, the value not the
\* initial one
C19_Witness ==
  /\ sLast.op = "touchHandle"
  /\ sDowns = 1
  /\ Len(sObservers) >= 1
  /\ getVal # JsNum(o.minVal)
  /\ Notifications = <<>>
  /\ Dragging

\* C20: while the overlay is hidden, a pointer-down, pointer-move or
\* pointer-up whose target is not the closed box leaves selectedItemNum,
\* hoverItemNum and the overlay's hidden state as they were and calls no
\* observer; the overlay becomes visible only by a pointer-down on the
\* closed box.
C20_ClosedInert ==
  [][ /\ (/\ Closed
          /\ mLast'.op \in PointerEvents
          /\ mLast'.target # "canvas")
         => (/\ _selectedItemNum' = _selectedItemNum
             /\ _hoverItemNum' = _hoverItemNum
             /\ ddVisibility' = "hidden"
             /\ mCalls' = <<>>)
      /\ (Closed /\ ddVisibility' = "visible")
         => (mLast'.op = "mousedown" /\ mLast'.target = "canvas") ]_vars

\* after an earlier cycle that committed row 2, mouseUpListener has run for
\* a pointer-up on the page while the overlay was hidden
C20_Witness ==
  /\ mLast.op = "mouseUpListener"
  /\ mLast.target = "other"
  /\ mFound = "hidden"
  /\ _selectedItemNum = 2
  /\ _hoverItemNum = -1
  /\ Len(_observers) >= 1
  /\ mCalls = <<>>
  /\ Closed

====
